---- MODULE Spec2Model ----
(***************************************************************************)
(* Test-analytics persistence pipeline of the Playwright framework:        *)
(*   - TestDatabase (tests/db/database.ts) and its SQL statements          *)
(*     (tests/db/queries.ts): the tables test_runs, test_results and       *)
(*     test_history of the SQLite store;                                   *)
(*   - DbReporter (tests/reporters/dbReporter.ts): the Playwright reporter *)
(*     hooks onBegin / onTestEnd / onEnd that drive the store.             *)
(*                                                                         *)
(* The specifications share the variables:                                 *)
(*   SpecDb    the history API called directly on an open handle;          *)
(*   SpecHist  updateTestHistory calls alone;                              *)
(*   SpecFlaky longer histories and the flaky-test ranking;                *)
(*   Spec      the reporter life cycle, one action per hook;               *)
(*   SpecLife  the reporter with hook calls after onEnd and another caller *)
(*             of the TestDatabase singleton;                              *)
(*   SpecConc  onTestEnd bodies of several calls interleaved at the        *)
(*             granularity of one SQL statement;                           *)
(*   SpecStore the run / result API and the dashboard generator;           *)
(*   SpecHtml  the rendering of a DashboardData value.                     *)
(*                                                                         *)
(* REAL columns and JavaScript numbers that hold quotients are modelled    *)
(* as exact fractions [num, den] in lowest terms.  Timestamps are ticks of *)
(* a logical clock; NULL / undefined timestamps are the value 0.           *)
(***************************************************************************)
EXTENDS Integers, Sequences, FiniteSets, TLC

\* ------------------------------------------------------------------------
\* Bounds of the model
\* ------------------------------------------------------------------------
MaxObserved == 2
MaxTests == 2
MaxSuite == 1
NumCalls == 2
MaxLimit == 2

TestIds == {"t1", "t2"}
Statuses == {"passed", "failed", "skipped", "timedOut", "interrupted"}
Durations == {0, 1, 2}
Retries == {0, 1}
CallIds == 1..NumCalls

\* the reporter hooks are driven with one duration: the hooks pass it
\* through to the store unchanged
HookTestIds == TestIds
HookDurations == {1}

NULL == 0
Undefined == [undefined |-> TRUE]

\* store file paths: the default of the TestDatabase constructor and a
\* caller's own path
NoPath == ""
DefaultPath == ".test-db/test-analytics.db"
CustomPath == "./custom-path/analytics.db"

\* ------------------------------------------------------------------------
\* Exact fractions for REAL values
\* ------------------------------------------------------------------------
RECURSIVE GCD(_, _)
GCD(a, b) == IF b = 0 THEN a ELSE GCD(b, a % b)

\* n / d for n >= 0, d > 0, in lowest terms
Frac(n, d) == LET g == GCD(n, d) IN [num |-> n \div g, den |-> d \div g]

FracLeq(x, y) == x.num * y.den <= y.num * x.den

\* number of elements of the sequence s that satisfy the predicate P
CountIf(s, P(_)) == Cardinality({i \in DOMAIN s : P(s[i])})

VARIABLES
  test_runs,      \* table test_runs: set of rows, run_id is the primary key
  test_results,   \* table test_results: set of rows, id is AUTOINCREMENT
  test_history,   \* table test_history: set of rows, test_id is UNIQUE
  schema,         \* the tables that exist in the store file
  instance,       \* TestDatabase.instance holds an open handle
  instancePath,   \* the dbPath of that handle, NoPath when there is none
  clock,          \* wall clock (new Date()), in ticks
  phase,          \* reporter life cycle: none, constructed, begun, ended
  db,             \* DbReporter.db is not null
  dbOpen,         \* the connection of the handle in DbReporter.db is open
  runId,          \* DbReporter.runId
  startTime,      \* DbReporter.startTime
  results,        \* DbReporter.results
  initError,      \* DbReporter.initError is not null
  dbErrorLogged,  \* DbReporter.dbErrorLogged
  ret,            \* outcome of the last call: operation, thrown?, value
  errorLogs,      \* console.error lines written by onTestEnd's catch
  observed,       \* results applied to test_history by updateTestHistory
  testEnds,       \* the onTestEnd calls made on the current reporter
  writeFaults,    \* store writes that threw inside onTestEnd of this run
  calls           \* SpecConc: the in-flight onTestEnd calls

vars == <<test_runs, test_results, test_history, schema, instance,
          instancePath, clock, phase, db, dbOpen,
          runId, startTime, results, initError, dbErrorLogged, ret,
          errorLogs, observed, testEnds, writeFaults, calls>>

storeVars == <<test_runs, test_results, test_history, schema>>
handleVars == <<instance, instancePath>>
reporterVars == <<phase, db, dbOpen, runId, startTime, results, initError,
                  dbErrorLogged, errorLogs, testEnds, writeFaults>>

\* a TestResult as built by onTestEnd (dbReporter.ts:95-111)
TestResultOf(rid, tid, st, dur, rc) ==
  [runId |-> rid, testId |-> tid, status |-> st, durationMs |-> dur,
   retryCount |-> rc]

Void(op) == [op |-> op, threw |-> FALSE, value |-> Undefined]
Threw(op) == [op |-> op, threw |-> TRUE, value |-> Undefined]
ThrewAt(op, stmt) == [op |-> op, threw |-> TRUE, value |-> [at |-> stmt]]
Returned(op, v) == [op |-> op, threw |-> FALSE, value |-> v]

\* ------------------------------------------------------------------------
\* SQL statements (queries.ts)
\* ------------------------------------------------------------------------
\* SELECT * FROM test_history WHERE test_id = ?
SELECT_HISTORY_BY_TEST_ID(hist, testId) == {r \in hist : r.test_id = testId}

\* the bound parameters of UPDATE_TEST_HISTORY / INSERT_TEST_HISTORY
FlakyFlagAnyRetry(result) == IF result.retryCount > 0 THEN 1 ELSE 0

FlakyFlag(result) ==
  IF result.retryCount > 0 /\ result.status = "passed" THEN 1 ELSE 0

HistoryParams(result, now) ==
  [testId |-> result.testId,
   passed |-> IF result.status = "passed" THEN 1 ELSE 0,
   failed |-> IF result.status = "failed" THEN 1 ELSE 0,
   skipped |-> IF result.status = "skipped" THEN 1 ELSE 0,
   flaky |-> FlakyFlag(result),
   durationMs |-> result.durationMs,
   lastStatus |-> result.status,
   lastRunAt |-> now]

\* min_duration_ms = CASE WHEN @durationMs < min_duration_ms OR
\* min_duration_ms = 0 THEN @durationMs ELSE min_duration_ms END
NextMinDuration(r, p) ==
  IF p.durationMs < r.min_duration_ms \/ r.min_duration_ms = 0
  THEN p.durationMs ELSE r.min_duration_ms

NextMaxDurationLatest(r, p) == p.durationMs

\* max_duration_ms = CASE WHEN @durationMs > max_duration_ms THEN
\* @durationMs ELSE max_duration_ms END
NextMaxDuration(r, p) ==
  IF p.durationMs > r.max_duration_ms
  THEN p.durationMs ELSE r.max_duration_ms

NextAvgDurationAfterIncrement(r, p) ==
  Frac(r.avg_duration_ms.num * (r.total_runs + 1)
         + p.durationMs * r.avg_duration_ms.den,
       r.avg_duration_ms.den * (r.total_runs + 2))

\* avg_duration_ms = (avg_duration_ms * (total_runs) + @durationMs) /
\* (total_runs + 1): every right-hand side of an UPDATE reads the row as it
\* was before the statement, so total_runs is the count before the increment
NextAvgDuration(r, p) ==
  Frac(r.avg_duration_ms.num * r.total_runs
         + p.durationMs * r.avg_duration_ms.den,
       r.avg_duration_ms.den * (r.total_runs + 1))

NextLastFailedAtAlways(r, p) == p.lastRunAt

\* last_failed_at = CASE WHEN @failed = 1 THEN @lastRunAt ELSE
\* last_failed_at END
NextLastFailedAt(r, p) ==
  IF p.failed = 1 THEN p.lastRunAt ELSE r.last_failed_at

UpdatedHistoryRow(r, p) ==
  [r EXCEPT
     !.total_runs = r.total_runs + 1,
     !.pass_count = r.pass_count + p.passed,
     !.fail_count = r.fail_count + p.failed,
     !.skip_count = r.skip_count + p.skipped,
     !.flaky_count = r.flaky_count + p.flaky,
     !.avg_duration_ms = NextAvgDuration(r, p),
     !.min_duration_ms = NextMinDuration(r, p),
     !.max_duration_ms = NextMaxDuration(r, p),
     !.last_status = p.lastStatus,
     !.last_run_at = p.lastRunAt,
     !.last_failed_at = NextLastFailedAt(r, p)]

\* UPDATE test_history SET ... WHERE test_id = @testId
UPDATE_TEST_HISTORY(hist, p) ==
  {IF r.test_id = p.testId THEN UpdatedHistoryRow(r, p) ELSE r : r \in hist}

InsertedHistoryRow(p) ==
  [test_id |-> p.testId,
   total_runs |-> 1,
   pass_count |-> p.passed,
   fail_count |-> p.failed,
   skip_count |-> p.skipped,
   flaky_count |-> p.flaky,
   avg_duration_ms |-> Frac(p.durationMs, 1),
   min_duration_ms |-> p.durationMs,
   max_duration_ms |-> p.durationMs,
   last_status |-> p.lastStatus,
   last_run_at |-> p.lastRunAt,
   last_failed_at |-> IF p.failed = 1 THEN p.lastRunAt ELSE NULL,
   first_run_at |-> p.lastRunAt]

\* test_history.test_id TEXT NOT NULL UNIQUE
HistoryUniqueViolation(hist, p) == \E r \in hist : r.test_id = p.testId

\* INSERT INTO test_history ... ; ok is FALSE on a constraint error
INSERT_TEST_HISTORY(hist, p) ==
  IF HistoryUniqueViolation(hist, p)
  THEN [ok |-> FALSE, rows |-> hist]
  ELSE [ok |-> TRUE, rows |-> hist \cup {InsertedHistoryRow(p)}]

FlakinessScoreInverted(r) == Frac(r.total_runs * 100, r.fail_count)

FlakinessScore(r) == Frac(r.fail_count * 100, r.total_runs)

FlakyEligibleAnyFail(hist) ==
  {r \in hist : r.total_runs >= 2 /\ r.fail_count > 0}

FlakyEligible(hist) ==
  {r \in hist : r.total_runs >= 2 /\ r.fail_count > 0 /\ r.pass_count > 0}

WithScore(r) ==
  [c \in DOMAIN r \cup {"flakiness_score"} |->
     IF c = "flakiness_score" THEN FlakinessScore(r) ELSE r[c]]

\* SELECT *, fail/total*100 AS flakiness_score ... ORDER BY flakiness_score
\* DESC LIMIT ?: the possible result lists (ties are in unspecified order)
SELECT_FLAKY_TESTS(hist, limit) ==
  LET rows == {WithScore(r) : r \in FlakyEligible(hist)}
      n == IF Cardinality(rows) < limit THEN Cardinality(rows) ELSE limit
  IN {s \in [1..n -> rows] :
        /\ \A i, j \in 1..n : i # j => s[i] # s[j]
        /\ \A i, j \in 1..n :
             i < j => FracLeq(s[j].flakiness_score, s[i].flakiness_score)
        /\ \A r \in rows : (\A i \in 1..n : s[i] # r) =>
             \A i \in 1..n :
               FracLeq(r.flakiness_score, s[i].flakiness_score)}

\* ------------------------------------------------------------------------
\* SCHEMA_INIT (queries.ts): CREATE TABLE IF NOT EXISTS for the four tables.
\* A store is the set of its tables and the rows of each; the indexes hold no
\* rows of their own and are left out.
\* ------------------------------------------------------------------------
TableNames == {"test_runs", "test_results", "test_history", "log_entries"}

StoreOf(sch, runs, res, hist) ==
  [schema |-> sch, test_runs |-> runs, test_results |-> res,
   test_history |-> hist, log_entries |-> {}]

\* the store file as the state holds it
Store == StoreOf(schema, test_runs, test_results, test_history)

\* CREATE TABLE t (...): a new, empty table
CreateTable(store, t) ==
  [store EXCEPT !.schema = @ \cup {t}, ![t] = {}]

CreateTableAnew(store, t) == CreateTable(store, t)

\* CREATE TABLE IF NOT EXISTS t (...)
CreateTableIfNotExists(store, t) ==
  IF t \in store.schema THEN store ELSE CreateTable(store, t)

SCHEMA_INIT(store) ==
  LET s1 == CreateTableIfNotExists(store, "test_runs")
      s2 == CreateTableIfNotExists(s1, "test_results")
      s3 == CreateTableIfNotExists(s2, "test_history")
  IN CreateTableIfNotExists(s3, "log_entries")

\* TestDatabase.initSchema
initSchema(store) == SCHEMA_INIT(store)

\* ------------------------------------------------------------------------
\* TestDatabase methods (database.ts)
\* ------------------------------------------------------------------------
\* mapToTestHistory: a column the row does not have reads as undefined
mapToTestHistory(row) ==
  [testId |-> row.test_id,
   totalRuns |-> row.total_runs,
   passCount |-> row.pass_count,
   failCount |-> row.fail_count,
   skipCount |-> row.skip_count,
   flakyCount |-> row.flaky_count,
   avgDurationMs |-> row.avg_duration_ms,
   minDurationMs |-> row.min_duration_ms,
   maxDurationMs |-> row.max_duration_ms,
   lastStatus |-> row.last_status,
   lastRunAt |-> row.last_run_at,
   lastFailedAt |-> row.last_failed_at,
   firstRunAt |-> row.first_run_at,
   flakinessScore |->
     IF "flakiness_score" \in DOMAIN row THEN row.flakiness_score
     ELSE Undefined]

\* updateTestHistory: read the row, then UPDATE or INSERT
updateTestHistory(hist, result, now) ==
  LET existing == SELECT_HISTORY_BY_TEST_ID(hist, result.testId)
      params == HistoryParams(result, now)
  IN IF existing # {}
     THEN [ok |-> TRUE, rows |-> UPDATE_TEST_HISTORY(hist, params)]
     ELSE INSERT_TEST_HISTORY(hist, params)

\* getTestHistory: the mapped row, or undefined
getTestHistory(hist, testId) ==
  LET rows == SELECT_HISTORY_BY_TEST_ID(hist, testId)
  IN IF rows = {} THEN Undefined
     ELSE mapToTestHistory(CHOOSE r \in rows : TRUE)

\* getFlakyTests: the possible mapped result lists
getFlakyTests(hist, limit) ==
  {[i \in DOMAIN s |-> mapToTestHistory(s[i])] :
     s \in SELECT_FLAKY_TESTS(hist, limit)}

\* ------------------------------------------------------------------------
\* SpecDb: the TestDatabase API called directly on an open handle
\* ------------------------------------------------------------------------
InitCommon ==
  /\ test_runs = {}
  /\ test_results = {}
  /\ test_history = {}
  /\ clock = 1
  /\ phase = "none"
  /\ db = FALSE
  /\ dbOpen = FALSE
  /\ runId = 0
  /\ startTime = 0
  /\ results = <<>>
  /\ initError = FALSE
  /\ dbErrorLogged = FALSE
  /\ ret = Void("init")
  /\ errorLogs = 0
  /\ observed = <<>>
  /\ testEnds = <<>>
  /\ writeFaults = 0
  /\ calls = [c \in CallIds |-> [pc |-> "idle"]]

InitDb ==
  /\ InitCommon
  /\ instance = TRUE
  /\ instancePath = DefaultPath
  /\ schema = TableNames

DbUpdateTestHistory(tid, st, dur, rc) ==
  /\ instance
  /\ Len(observed) < MaxObserved
  /\ LET result == TestResultOf(0, tid, st, dur, rc)
     IN \E out \in {updateTestHistory(test_history, result, clock)} :
          /\ test_history' = out.rows
          /\ observed' =
               IF out.ok THEN Append(observed, result) ELSE observed
          /\ ret' = IF out.ok THEN Void("updateTestHistory")
                    ELSE Threw("updateTestHistory")
  /\ clock' = clock + 1
  /\ UNCHANGED <<test_runs, test_results, schema, handleVars, reporterVars,
                 calls>>

DbGetTestHistory(tid) ==
  /\ instance
  /\ ret' = Returned("getTestHistory",
                     [testId |-> tid,
                      row |-> getTestHistory(test_history, tid)])
  /\ UNCHANGED <<storeVars, handleVars, clock, reporterVars, observed,
                 calls>>

DbGetFlakyTests(limit) ==
  /\ instance
  /\ \E list \in getFlakyTests(test_history, limit) :
       ret' = Returned("getFlakyTests", [limit |-> limit, list |-> list])
  /\ UNCHANGED <<storeVars, handleVars, clock, reporterVars, observed,
                 calls>>

NextDb ==
  \/ \E tid \in TestIds, st \in Statuses, dur \in Durations, rc \in Retries :
       DbUpdateTestHistory(tid, st, dur, rc)
  \/ \E tid \in TestIds : DbGetTestHistory(tid)
  \/ \E limit \in 1..MaxLimit : DbGetFlakyTests(limit)

SpecDb == InitDb /\ [][NextDb]_vars

\* SpecHist: updateTestHistory calls alone, on an open handle
NextHist ==
  \E tid \in TestIds, st \in Statuses, dur \in Durations, rc \in Retries :
    DbUpdateTestHistory(tid, st, dur, rc)

SpecHist == InitDb /\ [][NextHist]_vars

\* ------------------------------------------------------------------------
\* Flaky-test ranking over longer histories: updateTestHistory with a fixed
\* duration and no retries, then getFlakyTests
\* ------------------------------------------------------------------------
MaxFlakyObserved == 5

FlakyStatuses == {"passed", "failed", "skipped"}

FlakyUpdateTestHistory(tid, st) ==
  /\ instance
  /\ Len(observed) < MaxFlakyObserved
  /\ LET result == TestResultOf(0, tid, st, 1, 0)
         out == updateTestHistory(test_history, result, clock)
     IN /\ test_history' = out.rows
        /\ observed' = IF out.ok THEN Append(observed, result) ELSE observed
        /\ ret' = IF out.ok THEN Void("updateTestHistory")
                  ELSE Threw("updateTestHistory")
  /\ clock' = clock + 1
  /\ UNCHANGED <<test_runs, test_results, schema, handleVars, reporterVars,
                 calls>>

FlakyGetFlakyTests(limit) ==
  /\ instance
  /\ \E list \in getFlakyTests(test_history, limit) :
       ret' = Returned("getFlakyTests", [limit |-> limit, list |-> list])
  /\ UNCHANGED <<storeVars, handleVars, clock, reporterVars, observed,
                 calls>>

NextFlaky ==
  \/ \E tid \in TestIds, st \in FlakyStatuses :
       FlakyUpdateTestHistory(tid, st)
  \/ \E limit \in 0..MaxLimit : FlakyGetFlakyTests(limit)

SpecFlaky == InitDb /\ [][NextFlaky]_vars

\* ------------------------------------------------------------------------
\* test_runs and test_results statements and methods
\* ------------------------------------------------------------------------
RunKeyViolationNever(runs, rid) == FALSE

\* test_runs.run_id TEXT PRIMARY KEY
RunKeyViolation(runs, rid) == \E r \in runs : r.run_id = rid

\* the clock counts ticks of half a second
TicksPerSecond == 2

\* CURRENT_TIMESTAMP: the time in whole seconds
CURRENT_TIMESTAMP(now) == now \div TicksPerSecond

\* SQL NULL in a TEXT column that never holds the empty string
NullText == ""

\* run.f || default: a missing or empty text reads as the default
TextOr(run, f, default) ==
  IF f \in DOMAIN run /\ run[f] # "" THEN run[f] ELSE default

\* insertTestRun / INSERT_TEST_RUN at time now; ok is FALSE on a constraint
\* error
insertTestRun(runs, run, now) ==
  IF RunKeyViolation(runs, run.runId)
  THEN [ok |-> FALSE, rows |-> runs]
  ELSE [ok |-> TRUE,
        rows |-> runs \cup
          {[run_id |-> run.runId,
            started_at |-> run.startedAt,
            finished_at |-> NULL,
            total_tests |-> run.totalTests,
            passed |-> run.passed,
            failed |-> run.failed,
            skipped |-> run.skipped,
            flaky |-> run.flaky,
            pass_rate |-> run.passRate,
            duration_ms |-> run.durationMs,
            branch |-> TextOr(run, "branch", NullText),
            commit_sha |-> TextOr(run, "commitSha", NullText),
            environment |-> TextOr(run, "environment", "local"),
            trigger |-> TextOr(run, "trigger", "manual"),
            tags |-> TextOr(run, "tags", NullText),
            browser |-> TextOr(run, "browser", NullText),
            created_at |-> CURRENT_TIMESTAMP(now)]}]

\* a field of a Partial<TestRun>, or the default when it is not supplied
FieldOr(updates, f, default) ==
  IF f \in DOMAIN updates THEN updates[f] ELSE default

updateTestRunAll(runs, rid, updates) ==
  {[r EXCEPT
      !.finished_at = FieldOr(updates, "finishedAt", NULL),
      !.total_tests = FieldOr(updates, "totalTests", 0),
      !.passed = FieldOr(updates, "passed", 0),
      !.failed = FieldOr(updates, "failed", 0),
      !.skipped = FieldOr(updates, "skipped", 0),
      !.flaky = FieldOr(updates, "flaky", 0),
      !.pass_rate = FieldOr(updates, "passRate", Frac(0, 1)),
      !.duration_ms = FieldOr(updates, "durationMs", 0)] : r \in runs}

\* updateTestRun / UPDATE_TEST_RUN ... WHERE run_id = @runId
updateTestRun(runs, rid, updates) ==
  {IF r.run_id = rid
   THEN [r EXCEPT
           !.finished_at = FieldOr(updates, "finishedAt", NULL),
           !.total_tests = FieldOr(updates, "totalTests", 0),
           !.passed = FieldOr(updates, "passed", 0),
           !.failed = FieldOr(updates, "failed", 0),
           !.skipped = FieldOr(updates, "skipped", 0),
           !.flaky = FieldOr(updates, "flaky", 0),
           !.pass_rate = FieldOr(updates, "passRate", Frac(0, 1)),
           !.duration_ms = FieldOr(updates, "durationMs", 0)]
   ELSE r : r \in runs}

\* insertTestResult / INSERT_TEST_RESULT; id INTEGER PRIMARY KEY AUTOINCREMENT
insertTestResult(rows, result, now) ==
  rows \cup {[id |-> Cardinality(rows) + 1,
              run_id |-> result.runId,
              test_id |-> result.testId,
              status |-> result.status,
              duration_ms |-> result.durationMs,
              retry_count |-> result.retryCount,
              created_at |-> CURRENT_TIMESTAMP(now)]}

SELECT_TEST_RUN_ANY(runs, rid) == runs

\* SELECT * FROM test_runs WHERE run_id = ?
SELECT_TEST_RUN_BY_ID(runs, rid) == {r \in runs : r.run_id = rid}

\* the possible results of ORDER BY created_at DESC (desc) or ORDER BY
\* created_at (asc) LIMIT n over a set of rows; rows with equal created_at
\* come in an unspecified order
OrderedByCreatedAt(rows, desc, limit) ==
  LET n == IF Cardinality(rows) < limit THEN Cardinality(rows) ELSE limit
      Before(x, y) == IF desc THEN x.created_at >= y.created_at
                      ELSE x.created_at <= y.created_at
  IN {s \in [1..n -> rows] :
        /\ \A i, j \in 1..n : i # j => s[i] # s[j]
        /\ \A i, j \in 1..n : i < j => Before(s[i], s[j])
        /\ \A r \in rows : (\A i \in 1..n : s[i] # r) =>
             \A i \in 1..n : Before(s[i], r)}

\* SELECT * FROM test_runs ORDER BY created_at DESC LIMIT ?
SELECT_RECENT_RUNS(runs, limit) == OrderedByCreatedAt(runs, TRUE, limit)

\* SELECT * FROM test_results WHERE run_id = ? ORDER BY created_at
SELECT_RESULTS_BY_RUN(rows, rid) ==
  LET matching == {r \in rows : r.run_id = rid}
  IN OrderedByCreatedAt(matching, FALSE, Cardinality(matching))

SELECT_FAILED_TESTS_ANY_STATUS(rows, rid) ==
  LET matching == {r \in rows : r.run_id = rid}
  IN OrderedByCreatedAt(matching, FALSE, Cardinality(matching))

\* SELECT * FROM test_results WHERE run_id = ? AND status = 'failed' ORDER
\* BY created_at
SELECT_FAILED_TESTS_BY_RUN(rows, rid) ==
  LET matching == {r \in rows : r.run_id = rid /\ r.status = "failed"}
  IN OrderedByCreatedAt(matching, FALSE, Cardinality(matching))

mapToTestRun(row) ==
  [runId |-> row.run_id,
   startedAt |-> row.started_at,
   finishedAt |-> row.finished_at,
   totalTests |-> row.total_tests,
   passed |-> row.passed,
   failed |-> row.failed,
   skipped |-> row.skipped,
   flaky |-> row.flaky,
   passRate |-> row.pass_rate,
   durationMs |-> row.duration_ms,
   branch |-> row.branch,
   commitSha |-> row.commit_sha,
   environment |-> row.environment,
   trigger |-> row.trigger,
   tags |-> row.tags,
   browser |-> row.browser,
   createdAt |-> row.created_at]

mapToTestResult(row) ==
  [id |-> row.id,
   runId |-> row.run_id,
   testId |-> row.test_id,
   status |-> row.status,
   durationMs |-> row.duration_ms,
   retryCount |-> row.retry_count,
   createdAt |-> row.created_at]

\* getTestRun: the mapped row, or undefined
getTestRun(runs, rid) ==
  LET rows == SELECT_TEST_RUN_BY_ID(runs, rid)
  IN IF rows = {} THEN Undefined
     ELSE mapToTestRun(CHOOSE r \in rows : TRUE)

\* getRecentTestRuns: the possible mapped result lists
getRecentTestRuns(runs, limit) ==
  {[i \in DOMAIN s |-> mapToTestRun(s[i])] :
     s \in SELECT_RECENT_RUNS(runs, limit)}

\* getTestResults: the possible mapped result lists
getTestResults(rows, rid) ==
  {[i \in DOMAIN s |-> mapToTestResult(s[i])] :
     s \in SELECT_RESULTS_BY_RUN(rows, rid)}

\* getFailedTests: the possible mapped result lists
getFailedTests(rows, rid) ==
  {[i \in DOMAIN s |-> mapToTestResult(s[i])] :
     s \in SELECT_FAILED_TESTS_BY_RUN(rows, rid)}

\* ------------------------------------------------------------------------
\* DbReporter (dbReporter.ts)
\* ------------------------------------------------------------------------
\* onEnd's summary counts over this.results
SummaryPassed(rs) == CountIf(rs, LAMBDA r : r.status = "passed")

SummaryFailedNotPassed(rs) == CountIf(rs, LAMBDA r : r.status # "passed")

SummaryFailed(rs) == CountIf(rs, LAMBDA r : r.status = "failed")

SummarySkipped(rs) == CountIf(rs, LAMBDA r : r.status = "skipped")

SummaryFlakyAnyRetry(rs) == CountIf(rs, LAMBDA r : r.retryCount > 0)

SummaryFlaky(rs) ==
  CountIf(rs, LAMBDA r : r.retryCount > 0 /\ r.status = "passed")

PassRateNoPercent(passed, total) ==
  IF total > 0 THEN Frac(passed, total) ELSE Frac(0, 1)

PassRate(passed, total) ==
  IF total > 0 THEN Frac(passed * 100, total) ELSE Frac(0, 1)

\* the catch block of onTestEnd: lines written to console.error
CatchLogsAlways(logged) == 1

CatchLogs(logged) == IF ~logged THEN 1 ELSE 0

GetInstancePathRequested(inst, current, requested) == requested

\* getInstance(dbPath): the path of the handle it returns; dbPath is used
\* only when there is no instance
GetInstancePath(inst, current, requested) ==
  IF inst THEN current ELSE requested

\* no reporter yet, no store file yet
Init ==
  /\ InitCommon
  /\ instance = FALSE
  /\ instancePath = NoPath
  /\ schema = {}

ReporterHandleAlways(inst, openOk) == TRUE

\* try { this.db = TestDatabase.getInstance(...) } catch { initError }:
\* this.db stays null when getInstance throws
ReporterHandle(inst, openOk) == inst \/ openOk

\* constructor: fresh run identifier, start time, TestDatabase.getInstance
NewReporter(openOk) ==
  /\ phase = "none"
  /\ phase' = "constructed"
  /\ runId' = runId + 1
  /\ startTime' = clock
  /\ clock' = clock + 1
  /\ results' = <<>>
  /\ dbErrorLogged' = FALSE
  /\ db' = ReporterHandle(instance, openOk)
  /\ dbOpen' = (instance \/ openOk)
  /\ instance' = (instance \/ openOk)
  /\ instancePath' =
       IF instance \/ openOk
       THEN GetInstancePath(instance, instancePath, DefaultPath)
       ELSE NoPath
  /\ initError' = ~(instance \/ openOk)
  /\ LET opened == IF ~instance /\ openOk THEN initSchema(Store) ELSE Store
     IN /\ schema' = opened.schema
        /\ test_runs' = opened.test_runs
        /\ test_results' = opened.test_results
        /\ test_history' = opened.test_history
  /\ ret' = Returned("constructor", [openThrew |-> ~(instance \/ openOk)])
  /\ UNCHANGED <<errorLogs, observed, testEnds, writeFaults, calls>>

\* onBegin: insert the run row with zeroed counters
OnBegin(totalTests, fault) ==
  /\ phase = "constructed"
  /\ phase' = "begun"
  /\ LET testRun == [runId |-> runId, startedAt |-> startTime,
                     totalTests |-> totalTests, passed |-> 0, failed |-> 0,
                     skipped |-> 0, flaky |-> 0, passRate |-> Frac(0, 1),
                     durationMs |-> 0, branch |-> "main",
                     commitSha |-> "c0ffee", environment |-> "local",
                     trigger |-> "manual", tags |-> "",
                     browser |-> "chromium"]
         out == insertTestRun(test_runs, testRun, clock)
     IN IF db
        THEN IF fault \/ ~dbOpen \/ ~out.ok
             THEN /\ initError' = TRUE
                  /\ UNCHANGED test_runs
             ELSE /\ test_runs' = out.rows
                  /\ UNCHANGED initError
        ELSE UNCHANGED <<test_runs, initError>>
  /\ ret' = Void("onBegin")
  /\ UNCHANGED <<test_results, test_history, schema, handleVars, clock, db,
                 dbOpen, runId, startTime, results, dbErrorLogged,
                 errorLogs, observed, testEnds, writeFaults, calls>>

HistoryUpdateRunsAlone(insertThrows, historyThrows) == ~historyThrows

\* try { insertTestResult; updateTestHistory }: the history update is
\* reached only when the insert returned, and takes effect when it returns
HistoryUpdateRuns(insertThrows, historyThrows) ==
  ~insertThrows /\ ~historyThrows

\* onTestEnd: collect the result, insert it, update the history; a store
\* exception is caught and logged once
onTestEnd(tid, st, dur, rc, fault) ==
  /\ LET testResult == TestResultOf(runId, tid, st, dur, rc)
         hist == updateTestHistory(test_history, testResult, clock)
         insertThrows == fault = "insertTestResult" \/ ~dbOpen
         historyThrows == fault = "updateTestHistory" \/ ~hist.ok
         caught == db /\ (insertThrows \/ historyThrows)
     IN /\ results' = Append(results, testResult)
        /\ testEnds' = Append(testEnds, testResult)
        /\ test_results' =
             IF db /\ ~insertThrows
             THEN insertTestResult(test_results, testResult, clock)
             ELSE test_results
        /\ test_history' =
             IF db /\ HistoryUpdateRuns(insertThrows, historyThrows)
             THEN hist.rows ELSE test_history
        /\ observed' =
             IF db /\ HistoryUpdateRuns(insertThrows, historyThrows)
             THEN Append(observed, testResult) ELSE observed
        /\ clock' = IF db /\ ~insertThrows THEN clock + 1 ELSE clock
        /\ errorLogs' =
             IF caught THEN errorLogs + CatchLogs(dbErrorLogged)
             ELSE errorLogs
        /\ dbErrorLogged' = (dbErrorLogged \/ caught)
        /\ writeFaults' = IF caught THEN writeFaults + 1 ELSE writeFaults
  /\ ret' = Void("onTestEnd")
  /\ UNCHANGED <<test_runs, schema, handleVars, phase, db, dbOpen, runId,
                 startTime, initError, calls>>

\* Playwright calls onTestEnd for the tests of the run, after onBegin
OnTestEnd(tid, st, dur, rc, fault) ==
  /\ phase = "begun"
  /\ Len(testEnds) < MaxTests
  /\ onTestEnd(tid, st, dur, rc, fault)

EndStoreCallsCloseFirst(hasDb) ==
  IF hasDb THEN <<"close", "updateTestRun", "checkpoint">> ELSE <<>>

\* the store calls of onEnd in program order: this.db.updateTestRun, then
\* this.db.checkpoint, then TestDatabase.resetInstance (close the handle,
\* clear the singleton); none of them when this.db is null
EndStoreCalls(hasDb) ==
  IF hasDb THEN <<"updateTestRun", "checkpoint", "close">> ELSE <<>>

\* one store call of onEnd, on the state st left by the calls before it:
\* st.runs is test_runs, st.instance the singleton, st.open the connection
\* of this.db, st.threw the call that threw, st.done the calls that returned.
\* A statement on a closed connection throws; resetInstance does nothing
\* when there is no instance.
EndCall(st, call, fault, rid, updates) ==
  IF st.threw # "none" THEN st
  ELSE IF call = "close"
  THEN IF ~st.instance THEN [st EXCEPT !.done = Append(@, call)]
       ELSE IF fault = call THEN [st EXCEPT !.threw = call]
       ELSE [st EXCEPT !.instance = FALSE, !.open = FALSE,
                       !.done = Append(@, call)]
  ELSE IF fault = call \/ ~st.open THEN [st EXCEPT !.threw = call]
  ELSE IF call = "updateTestRun"
  THEN [st EXCEPT !.runs = updateTestRun(st.runs, rid, updates),
                  !.done = Append(@, call)]
  ELSE [st EXCEPT !.done = Append(@, call)]

RECURSIVE EndCalls(_, _, _, _, _)
EndCalls(st, todo, fault, rid, updates) ==
  IF todo = <<>> THEN st
  ELSE EndCalls(EndCall(st, Head(todo), fault, rid, updates), Tail(todo),
                fault, rid, updates)

\* onEnd's summary: the counts and the pass rate over this.results
Summary(rs) ==
  [total |-> Len(rs),
   passed |-> SummaryPassed(rs),
   failed |-> SummaryFailed(rs),
   skipped |-> SummarySkipped(rs),
   flaky |-> SummaryFlaky(rs),
   passRate |-> PassRate(SummaryPassed(rs), Len(rs))]

\* the Partial<TestRun> onEnd passes to updateTestRun
FinalUpdates(summary, endTime, start) ==
  [finishedAt |-> endTime,
   totalTests |-> summary.total,
   passed |-> summary.passed,
   failed |-> summary.failed,
   skipped |-> summary.skipped,
   flaky |-> summary.flaky,
   passRate |-> summary.passRate,
   durationMs |-> endTime - start]

\* onEnd: final counts, updateTestRun, the printed summary, checkpoint,
\* resetInstance; no statement of it is inside a try block
onEnd(fault) ==
  /\ phase' = "ended"
  /\ clock' = clock + 1
  /\ \E summary \in {Summary(results)} :
     \E end \in {EndCalls([runs |-> test_runs, instance |-> instance,
                           open |-> dbOpen, threw |-> "none",
                           done |-> <<>>],
                          EndStoreCalls(db), fault, runId,
                          FinalUpdates(summary, clock, startTime))} :
       /\ test_runs' = end.runs
       /\ instance' = end.instance
       /\ instancePath' = IF end.instance THEN instancePath ELSE NoPath
       /\ dbOpen' = end.open
       /\ ret' = IF end.threw # "none" THEN ThrewAt("onEnd", end.threw)
                 ELSE Returned("onEnd", [summary |-> summary,
                                         storeCalls |-> end.done])
  /\ UNCHANGED <<test_results, test_history, schema, db, runId,
                 startTime, results, initError, dbErrorLogged,
                 errorLogs, observed, testEnds, writeFaults, calls>>

\* Playwright calls onEnd once, after the last onTestEnd
OnEnd(fault) ==
  /\ phase = "begun"
  /\ onEnd(fault)

TestEndFaults == {"none", "insertTestResult", "updateTestHistory"}
EndFaults == {"none", "updateTestRun", "checkpoint", "close"}

Next ==
  \/ \E openOk \in BOOLEAN : NewReporter(openOk)
  \/ \E totalTests \in 1..MaxSuite, fault \in BOOLEAN :
       OnBegin(totalTests, fault)
  \/ \E tid \in HookTestIds, st \in Statuses, dur \in HookDurations,
        rc \in Retries, fault \in TestEndFaults :
       OnTestEnd(tid, st, dur, rc, fault)
  \/ \E fault \in EndFaults : OnEnd(fault)

Spec == Init /\ [][Next]_vars

\* ------------------------------------------------------------------------
\* SpecConc: onTestEnd calls whose store statements interleave.  Each SQL
\* statement is atomic; the SELECT and the INSERT / UPDATE of one
\* updateTestHistory call are separate statements.
\* ------------------------------------------------------------------------
\* the state after the constructor and onBegin of a run on an empty store
InitConc ==
  /\ test_runs =
       insertTestRun({}, [runId |-> 1, startedAt |-> 1, totalTests |-> NumCalls,
                          passed |-> 0, failed |-> 0, skipped |-> 0,
                          flaky |-> 0, passRate |-> Frac(0, 1),
                          durationMs |-> 0, branch |-> "main",
                          commitSha |-> "c0ffee", environment |-> "local",
                          trigger |-> "manual", tags |-> "",
                          browser |-> "chromium"], 1).rows
  /\ test_results = {}
  /\ test_history = {}
  /\ schema = TableNames
  /\ instance = TRUE
  /\ instancePath = DefaultPath
  /\ clock = 2
  /\ phase = "begun"
  /\ db = TRUE
  /\ dbOpen = TRUE
  /\ runId = 1
  /\ startTime = 1
  /\ results = <<>>
  /\ initError = FALSE
  /\ dbErrorLogged = FALSE
  /\ ret = Void("onBegin")
  /\ errorLogs = 0
  /\ observed = <<>>
  /\ testEnds = <<>>
  /\ writeFaults = 0
  /\ calls = [c \in CallIds |-> [pc |-> "idle"]]

\* onTestEnd up to and including insertTestResult
CallInsertResult(c, tid, st, dur, rc) ==
  /\ calls[c].pc = "idle"
  /\ LET testResult == TestResultOf(runId, tid, st, dur, rc)
     IN /\ test_results' = insertTestResult(test_results, testResult, clock)
        /\ calls' = [calls EXCEPT ![c] = [pc |-> "select",
                                          result |-> testResult]]
  /\ ret' = Void("insertTestResult")
  /\ UNCHANGED <<test_runs, test_history, schema, handleVars, clock,
                 reporterVars, observed>>

\* updateTestHistory: the SELECT and the building of the parameters
CallSelectHistory(c) ==
  /\ calls[c].pc = "select"
  /\ calls' = [calls EXCEPT ![c] =
       [pc |-> "write",
        result |-> calls[c].result,
        existing |->
          SELECT_HISTORY_BY_TEST_ID(test_history, calls[c].result.testId)
            # {},
        params |-> HistoryParams(calls[c].result, clock)]]
  /\ clock' = clock + 1
  /\ ret' = Void("SELECT_HISTORY_BY_TEST_ID")
  /\ UNCHANGED <<storeVars, handleVars, reporterVars, observed>>

\* updateTestHistory: UPDATE if a row was read, INSERT otherwise; a
\* constraint error is caught by onTestEnd
CallWriteHistory(c) ==
  /\ calls[c].pc = "write"
  /\ LET out == IF calls[c].existing
                THEN [ok |-> TRUE,
                      rows |-> UPDATE_TEST_HISTORY(test_history,
                                                   calls[c].params)]
                ELSE INSERT_TEST_HISTORY(test_history, calls[c].params)
     IN /\ test_history' = out.rows
        /\ observed' = IF out.ok THEN Append(observed, calls[c].result)
                       ELSE observed
        /\ calls' = [calls EXCEPT ![c] = [pc |-> "done",
                                          result |-> calls[c].result,
                                          caught |-> ~out.ok]]
        /\ ret' = Void("onTestEnd")
  /\ UNCHANGED <<test_runs, test_results, schema, handleVars, clock,
                 reporterVars>>

NextConc ==
  \/ \E c \in CallIds, tid \in TestIds, st \in Statuses,
        dur \in HookDurations, rc \in Retries :
       CallInsertResult(c, tid, st, dur, rc)
  \/ \E c \in CallIds : CallSelectHistory(c)
  \/ \E c \in CallIds : CallWriteHistory(c)

SpecConc == InitConc /\ [][NextConc]_vars

\* ------------------------------------------------------------------------
\* Dashboard rendering (DashboardUtils.ts, HtmlTemplateEngine.ts)
\* A text is a sequence of characters.  A rendered row is the record of the
\* values interpolated into its template, by slot; a rendered section is its
\* heading, its empty-state paragraph, whether it has a table, and its rows.
\* ------------------------------------------------------------------------
MaxTextLen == 1
RowCounts == {0, 2}

Chars == {"a", "&", "<", ">", "\"", "'", "\n"}

Texts == UNION {[1..n -> Chars] : n \in 0..MaxTextLen}

RECURSIVE ReplaceAll(_, _, _)
\* text.replace(/c/g, by)
ReplaceAll(text, c, by) ==
  IF text = <<>> THEN <<>>
  ELSE (IF Head(text) = c THEN by ELSE <<Head(text)>>)
       \o ReplaceAll(Tail(text), c, by)

\* DashboardUtils.escapeHtml: five replacements, the ampersand first
escapeHtml(text) ==
  LET t1 == ReplaceAll(text, "&", <<"&", "a", "m", "p", ";">>)
      t2 == ReplaceAll(t1, "<", <<"&", "l", "t", ";">>)
      t3 == ReplaceAll(t2, ">", <<"&", "g", "t", ";">>)
      t4 == ReplaceAll(t3, "\"", <<"&", "q", "u", "o", "t", ";">>)
  IN ReplaceAll(t4, "'", <<"&", "#", "0", "3", "9", ";">>)

\* DashboardUtils.getPassRateClass
getPassRateClass(passRate) ==
  IF FracLeq(Frac(90, 1), passRate) THEN "success"
  ELSE IF FracLeq(Frac(70, 1), passRate) THEN "warning"
  ELSE "error"

\* Number.prototype.toFixed(1) of x >= 0: the decimal numeral with one
\* fraction digit, as its integer part and that digit
toFixed1(x) ==
  LET tenths == (2 * 10 * x.num + x.den) \div (2 * x.den)
  IN [int |-> tenths \div 10, frac |-> tenths % 10]

RECURSIVE FirstLine(_)
\* text.split('\n')[0]
FirstLine(text) ==
  IF text = <<>> \/ Head(text) = "\n" THEN <<>>
  ELSE <<Head(text)>> \o FirstLine(Tail(text))

\* array.slice(0, n)
SliceTo(list, n) == SubSeq(list, 1, IF Len(list) < n THEN Len(list) ELSE n)

\* array.reverse()
Reverse(list) == [i \in 1..Len(list) |-> list[Len(list) + 1 - i]]

ChartRuns == 10
SlowestShown == 10

prepareChartData(data) ==
  LET recentRuns == Reverse(SliceTo(data.runs, ChartRuns))
  IN [labels |-> [i \in 1..Len(recentRuns) |-> i],
      passRateTrend |->
        [i \in 1..Len(recentRuns) |-> toFixed1(recentRuns[i].passRate)],
      durationTrend |->
        [i \in 1..Len(recentRuns) |->
           toFixed1(Frac(recentRuns[i].durationMs, 1000))]]

\* the empty string: nothing is rendered
NoSection == [heading |-> "", emptyState |-> "", table |-> FALSE,
              rows |-> <<>>]

NoRunsMarker == "No test runs yet. Run some tests to see data here."

generateRunRow(run) ==
  [passRateClass |-> getPassRateClass(run.passRate),
   passed |-> run.passed,
   failed |-> run.failed,
   passRate |-> toFixed1(run.passRate),
   environment |-> run.environment]

generateRunsSection(runs) ==
  IF Len(runs) = 0
  THEN [heading |-> "Recent Test Runs", emptyState |-> NoRunsMarker,
        table |-> FALSE, rows |-> <<>>]
  ELSE [heading |-> "Recent Test Runs", emptyState |-> "", table |-> TRUE,
        rows |-> [i \in 1..Len(runs) |-> generateRunRow(runs[i])]]

\* test.errorMessage is a non-empty string
HasErrorMessage(test) ==
  "errorMessage" \in DOMAIN test /\ test.errorMessage # <<>>

generateFailureRow(test) ==
  [testName |-> test.testName,
   browser |-> test.browser,
   title |-> IF HasErrorMessage(test) THEN escapeHtml(test.errorMessage)
             ELSE <<>>,
   error |-> IF HasErrorMessage(test)
             THEN escapeHtml(FirstLine(test.errorMessage))
             ELSE <<"No error message">>]

generateFailuresSectionAlways(failures) ==
  [heading |-> "Latest Failures", emptyState |-> "", table |-> TRUE,
   rows |-> [i \in 1..Len(failures) |-> generateFailureRow(failures[i])]]

generateFailuresSection(failures) ==
  IF Len(failures) = 0 THEN NoSection
  ELSE [heading |-> "Latest Failures", emptyState |-> "", table |-> TRUE,
        rows |->
          [i \in 1..Len(failures) |-> generateFailureRow(failures[i])]]

generateFlakyTestRow(test) ==
  [testName |-> test.testName,
   totalRuns |-> test.totalRuns,
   passCount |-> test.passCount,
   failCount |-> test.failCount,
   flakinessScore |->
     toFixed1(IF test.flakinessScore = Undefined THEN Frac(0, 1)
              ELSE test.flakinessScore)]

generateFlakyTestsSection(flakyTests) ==
  IF Len(flakyTests) = 0 THEN NoSection
  ELSE [heading |-> "Flaky Tests", emptyState |-> "", table |-> TRUE,
        rows |->
          [i \in 1..Len(flakyTests) |-> generateFlakyTestRow(flakyTests[i])]]

generateSlowTestRow(test) == [testName |-> test.testName]

generateSlowestTestsSection(slowestTests) ==
  IF Len(slowestTests) = 0 THEN NoSection
  ELSE LET shown == SliceTo(slowestTests, SlowestShown)
       IN [heading |-> "Slowest Tests", emptyState |-> "", table |-> TRUE,
           rows |-> [i \in 1..Len(shown) |-> generateSlowTestRow(shown[i])]]

\* HtmlTemplateEngine.build
build(data) ==
  [chartData |-> prepareChartData(data),
   runs |-> generateRunsSection(data.runs),
   failures |-> generateFailuresSection(data.latestFailures),
   flaky |-> generateFlakyTestsSection(data.flakyTests),
   slowest |-> generateSlowestTestsSection(data.slowestTests)]

Copies(n, x) == [i \in 1..n |-> x]

SampleRun ==
  [runId |-> 1, passed |-> 1, failed |-> 1, passRate |-> Frac(50, 1),
   durationMs |-> 1500, environment |-> "local"]

FailureInputs ==
  {[testName |-> n, browser |-> "chromium", errorMessage |-> e] :
     n \in Texts, e \in Texts}
  \cup {[testName |-> n, browser |-> "chromium"] : n \in Texts}

HistoryOf(f) ==
  [testName |-> f.testName, totalRuns |-> 2, passCount |-> 1,
   failCount |-> 1, flakinessScore |-> Frac(50, 1)]

\* a DashboardData whose lists hold copies of one run and of one test
DashboardDataOf(nRuns, nFailures, nFlaky, nSlowest, f) ==
  [runs |-> Copies(nRuns, SampleRun),
   latestFailures |-> Copies(nFailures, f),
   flakyTests |-> Copies(nFlaky, HistoryOf(f)),
   slowestTests |-> Copies(nSlowest, HistoryOf(f))]

HtmlBuild(data) ==
  /\ ret' = Returned("build", [data |-> data, html |-> build(data)])
  /\ UNCHANGED <<storeVars, handleVars, clock, reporterVars, observed,
                 calls>>

\* one build per generated dashboard
NextHtml ==
  /\ ret.op = "init"
  /\ \E nRuns, nFailures, nFlaky, nSlowest \in RowCounts, f \in FailureInputs :
       HtmlBuild(DashboardDataOf(nRuns, nFailures, nFlaky, nSlowest, f))

SpecHtml == Init /\ [][NextHtml]_vars

\* ------------------------------------------------------------------------
\* SpecStore: the TestDatabase API and the dashboard generator called on a
\* store file that is opened and closed.  Run identifiers are numbers here;
\* EmptyRunId stands for the empty string ''.
\* ------------------------------------------------------------------------
MaxStoreClock == 4

EmptyRunId == 0

StoreRunIds == {EmptyRunId, 1}

StoreTestIds == {"t1", "t2"}

RecentRunsLimit == 20

\* the outcome of a call with its arguments
Called(op, args, threw, result) ==
  [op |-> op, threw |-> threw, value |-> [args |-> args, result |-> result]]

\* a TestRun as a caller passes it to insertTestRun
StoreRunOf(rid, now) ==
  [runId |-> rid, startedAt |-> now, totalTests |-> 1, passed |-> 0,
   failed |-> 0, skipped |-> 0, flaky |-> 0, passRate |-> Frac(0, 1),
   durationMs |-> 1000 * rid, branch |-> "main", tags |-> ""]

\* Partial<TestRun> values passed to updateTestRun
StoreUpdates(now) ==
  {<<>>,
   [passed |-> 1],
   [finishedAt |-> now, totalTests |-> 2, passed |-> 1, failed |-> 1,
    skipped |-> 0, flaky |-> 0, passRate |-> Frac(50, 1),
    durationMs |-> 1500]}

\* TestDatabase.getInstance: opens the file and runs initSchema when there
\* is no instance
StoreGetInstance ==
  /\ LET opened == IF instance THEN Store ELSE initSchema(Store)
     IN /\ schema' = opened.schema
        /\ test_runs' = opened.test_runs
        /\ test_results' = opened.test_results
        /\ test_history' = opened.test_history
  /\ instance' = TRUE
  /\ instancePath' = GetInstancePath(instance, instancePath, DefaultPath)
  /\ ret' = Called("getInstance", [wasOpen |-> instance], FALSE, Undefined)
  /\ UNCHANGED <<clock, reporterVars, observed, calls>>

\* TestDatabase.resetInstance
StoreResetInstance ==
  /\ instance' = FALSE
  /\ instancePath' = NoPath
  /\ ret' = Called("resetInstance", [wasOpen |-> instance], FALSE, Undefined)
  /\ UNCHANGED <<storeVars, clock, reporterVars, observed, calls>>

StoreInsertTestRun(rid) ==
  /\ instance
  /\ clock < MaxStoreClock
  /\ LET run == StoreRunOf(rid, clock)
         out == insertTestRun(test_runs, run, clock)
     IN /\ test_runs' = out.rows
        /\ ret' = Called("insertTestRun", run, ~out.ok, Undefined)
  /\ clock' = clock + 1
  /\ UNCHANGED <<test_results, test_history, schema, handleVars,
                 reporterVars, observed, calls>>

StoreUpdateTestRun(rid) ==
  /\ instance
  /\ clock < MaxStoreClock
  /\ \E updates \in StoreUpdates(clock) :
       /\ test_runs' = updateTestRun(test_runs, rid, updates)
       /\ ret' = Called("updateTestRun",
                        [runId |-> rid, updates |-> updates], FALSE,
                        Undefined)
  /\ clock' = clock + 1
  /\ UNCHANGED <<test_results, test_history, schema, handleVars,
                 reporterVars, observed, calls>>

StoreInsertTestResult(rid, tid, st) ==
  /\ instance
  /\ clock < MaxStoreClock
  /\ LET result == TestResultOf(rid, tid, st, 1, 0)
     IN /\ test_results' = insertTestResult(test_results, result, clock)
        /\ ret' = Called("insertTestResult", result, FALSE, Undefined)
  /\ clock' = clock + 1
  /\ UNCHANGED <<test_runs, test_history, schema, handleVars, reporterVars,
                 observed, calls>>

StoreUpdateTestHistory(rid, tid, st) ==
  /\ instance
  /\ clock < MaxStoreClock
  /\ LET result == TestResultOf(rid, tid, st, 1, 0)
         out == updateTestHistory(test_history, result, clock)
     IN /\ test_history' = out.rows
        /\ observed' = IF out.ok THEN Append(observed, result) ELSE observed
        /\ ret' = Called("updateTestHistory", result, ~out.ok, Undefined)
  /\ clock' = clock + 1
  /\ UNCHANGED <<test_runs, test_results, schema, handleVars, reporterVars,
                 calls>>

StoreGetTestRun(rid) ==
  /\ instance
  /\ ret' = Called("getTestRun", [runId |-> rid], FALSE,
                   getTestRun(test_runs, rid))
  /\ UNCHANGED <<storeVars, handleVars, clock, reporterVars, observed,
                 calls>>

StoreGetTestHistory(tid) ==
  /\ instance
  /\ ret' = Called("getTestHistory", [testId |-> tid], FALSE,
                   getTestHistory(test_history, tid))
  /\ UNCHANGED <<storeVars, handleVars, clock, reporterVars, observed,
                 calls>>

StoreGetTestResults(rid) ==
  /\ instance
  /\ \E list \in getTestResults(test_results, rid) :
       ret' = Called("getTestResults", [runId |-> rid], FALSE, list)
  /\ UNCHANGED <<storeVars, handleVars, clock, reporterVars, observed,
                 calls>>

StoreGetFailedTests(rid) ==
  /\ instance
  /\ \E list \in getFailedTests(test_results, rid) :
       ret' = Called("getFailedTests", [runId |-> rid], FALSE, list)
  /\ UNCHANGED <<storeVars, handleVars, clock, reporterVars, observed,
                 calls>>

\* DEFAULT_CONFIG of DashboardDataService
DEFAULT_CONFIG ==
  [recentRunsLimit |-> RecentRunsLimit, flakyTestsLimit |-> 10,
   slowestTestsLimit |-> 10, mostFailingTestsLimit |-> 10]

\* no config argument
NoConfig == <<>>

\* the DashboardConfig values given to new DashboardGenerator(config)
GeneratorConfigs == {NoConfig, [recentRunsLimit |-> 1]}

\* DashboardDataService constructor: { ...DEFAULT_CONFIG, ...config }
ServiceConfig(config) ==
  [k \in DOMAIN DEFAULT_CONFIG |->
     IF k \in DOMAIN config THEN config[k] ELSE DEFAULT_CONFIG[k]]

\* fetchDashboardData: the possible values of the recent runs and of the
\* failures of the first of them
fetchDashboardData(st, config) ==
  UNION {{[runs |-> runs, latestFailures |-> failures] :
            failures \in IF Len(runs) > 0
                         THEN getFailedTests(st.test_results, runs[1].runId)
                         ELSE {<<>>}} :
           runs \in getRecentTestRuns(st.test_runs, config.recentRunsLimit)}

\* DashboardGenerator.generate of a generator constructed with config: open
\* the store, new DashboardDataService(db) without a config argument,
\* fetchDashboardData, build the document; of the document, the chart data
\* is kept
StoreGenerate(config) ==
  /\ LET opened == IF instance THEN Store ELSE initSchema(Store)
     IN /\ schema' = opened.schema
        /\ test_runs' = opened.test_runs
        /\ test_results' = opened.test_results
        /\ test_history' = opened.test_history
        /\ \E data \in fetchDashboardData(opened, ServiceConfig(NoConfig)) :
             ret' = Called("generate",
                           [wasOpen |-> instance, config |-> config], FALSE,
                           [runs |-> data.runs,
                            latestFailures |-> data.latestFailures,
                            chartData |-> prepareChartData(data)])
  /\ instance' = TRUE
  /\ instancePath' = GetInstancePath(instance, instancePath, DefaultPath)
  /\ UNCHANGED <<clock, reporterVars, observed, calls>>

NextStore ==
  \/ StoreGetInstance
  \/ StoreResetInstance
  \/ \E rid \in StoreRunIds : StoreInsertTestRun(rid)
  \/ \E rid \in StoreRunIds : StoreUpdateTestRun(rid)
  \/ \E rid \in StoreRunIds, st \in {"passed", "failed"} :
       StoreInsertTestResult(rid, "t1", st)
  \/ \E tid \in StoreTestIds : StoreUpdateTestHistory(1, tid, "failed")
  \/ \E rid \in StoreRunIds : StoreGetTestRun(rid)
  \/ \E tid \in StoreTestIds : StoreGetTestHistory(tid)
  \/ \E rid \in StoreRunIds : StoreGetTestResults(rid)
  \/ \E rid \in StoreRunIds : StoreGetFailedTests(rid)
  \/ \E config \in GeneratorConfigs : StoreGenerate(config)

SpecStore == Init /\ [][NextStore]_vars

\* ------------------------------------------------------------------------
\* SpecLife: one reporter over its whole life, with hook calls that arrive
\* after onEnd and another caller of the TestDatabase singleton in the same
\* process (DashboardGenerator.openDatabase, a test's cleanup).  The tables
\* are those of the file at DefaultPath, which the reporter opens first; the
\* file at CustomPath is only ever opened.
\* ------------------------------------------------------------------------
MaxLifeClock == 5
LifeStatuses == {"passed", "failed"}
LifePaths == {DefaultPath, CustomPath}

\* onTestEnd called on the reporter after its onEnd
LateTestEnd(st, fault) ==
  /\ phase = "ended"
  /\ Len(testEnds) < MaxTests
  /\ onTestEnd("t1", st, 1, 0, fault)

\* onEnd called on the reporter a second time
LateEnd(fault) ==
  /\ phase = "ended"
  /\ clock < MaxLifeClock
  /\ onEnd(fault)

\* TestDatabase.getInstance(path) by another caller
LifeGetInstance(path) ==
  /\ phase # "none"
  /\ instance' = TRUE
  /\ instancePath' = GetInstancePath(instance, instancePath, path)
  /\ LET opened == IF ~instance /\ path = DefaultPath
                   THEN initSchema(Store) ELSE Store
     IN /\ schema' = opened.schema
        /\ test_runs' = opened.test_runs
        /\ test_results' = opened.test_results
        /\ test_history' = opened.test_history
  /\ ret' = Returned("getInstance",
                     [requested |-> path,
                      path |-> GetInstancePath(instance, instancePath, path),
                      fresh |-> ~instance])
  /\ UNCHANGED <<clock, reporterVars, observed, calls>>

\* TestDatabase.resetInstance() by another caller: the open handle, which
\* is the one the reporter holds if that is still open, is closed
LifeResetInstance ==
  /\ phase # "none"
  /\ instance' = FALSE
  /\ instancePath' = NoPath
  /\ dbOpen' = FALSE
  /\ ret' = Returned("resetInstance", [wasOpen |-> instance])
  /\ UNCHANGED <<storeVars, clock, phase, db, runId, startTime, results,
                 initError, dbErrorLogged, errorLogs, observed, testEnds,
                 writeFaults, calls>>

NextLife ==
  \/ \E openOk \in BOOLEAN : NewReporter(openOk)
  \/ \E fault \in BOOLEAN : OnBegin(1, fault)
  \/ \E st \in LifeStatuses, fault \in TestEndFaults :
       OnTestEnd("t1", st, 1, 0, fault)
  \/ \E fault \in EndFaults : OnEnd(fault)
  \/ \E st \in LifeStatuses, fault \in TestEndFaults : LateTestEnd(st, fault)
  \/ \E fault \in EndFaults : LateEnd(fault)
  \/ \E path \in LifePaths : LifeGetInstance(path)
  \/ LifeResetInstance

SpecLife == Init /\ [][NextLife]_vars

\* ------------------------------------------------------------------------
\* Properties of the store (checked under SpecDb)
\* ------------------------------------------------------------------------
ObservedFor(t) == SelectSeq(observed, LAMBDA r : r.testId = t)

IsFlakyResult(r) == r.retryCount > 0 /\ r.status = "passed"

\* C2: after N results applied by updateTestHistory for a test identifier,
\* whatever their status, the history row has totalRuns = N and
\* passCount + failCount + skipCount = N.
C2_HistoryCounterInvariant ==
  \A t \in TestIds :
    Len(ObservedFor(t)) > 0 =>
      /\ SELECT_HISTORY_BY_TEST_ID(test_history, t) # {}
      /\ \A r \in SELECT_HISTORY_BY_TEST_ID(test_history, t) :
           /\ r.total_runs = Len(ObservedFor(t))
           /\ r.pass_count + r.fail_count + r.skip_count
                = Len(ObservedFor(t))

\* C8: flakyCount counts exactly the applied results that passed on a retry
\* (one increment for each, none for any other result), so flakyCount <=
\* passCount; a failed result (retry 0) followed by a passed result (retry 1)
\* gives totalRuns = 2, passCount = 1, failCount = 1, flakyCount = 1.
C8_FlakyCount ==
  \A t \in TestIds :
    \A r \in SELECT_HISTORY_BY_TEST_ID(test_history, t) :
      /\ r.flaky_count = CountIf(ObservedFor(t), IsFlakyResult)
      /\ r.flaky_count <= r.pass_count
      /\ ( /\ Len(ObservedFor(t)) = 2
           /\ ObservedFor(t)[1].status = "failed"
           /\ ObservedFor(t)[1].retryCount = 0
           /\ ObservedFor(t)[2].status = "passed"
           /\ ObservedFor(t)[2].retryCount = 1 )
         => /\ r.total_runs = 2
            /\ r.pass_count = 1
            /\ r.fail_count = 1
            /\ r.flaky_count = 1

C8_Witness ==
  \E t \in TestIds :
    /\ Len(ObservedFor(t)) = 2
    /\ ObservedFor(t)[1].status = "failed"
    /\ ObservedFor(t)[1].retryCount = 0
    /\ ObservedFor(t)[2].status = "passed"
    /\ ObservedFor(t)[2].retryCount = 1
    /\ \E r \in SELECT_HISTORY_BY_TEST_ID(test_history, t) :
         r.flaky_count = 1

\* C9: the history row read back by getTestHistory for an identifier with at
\* least one observed result carries flakinessScore = failCount / totalRuns
\* * 100.
C9_HistoryCarriesScore ==
  (ret.op = "getTestHistory" /\ Len(ObservedFor(ret.value.testId)) > 0) =>
    /\ ret.value.row # Undefined
    /\ ret.value.row.flakinessScore
         = Frac(ret.value.row.failCount * 100, ret.value.row.totalRuns)

\* the history records the last read returned
ReturnedHistories ==
  IF ret.op = "getTestHistory"
  THEN {ret.value.row} \ {Undefined}
  ELSE IF ret.op = "getFlakyTests"
       THEN {ret.value.list[i] : i \in DOMAIN ret.value.list}
       ELSE {}

\* C10: every flakiness score the store returns lies in [0, 100], and no
\* score is returned for a test whose totalRuns is below 1.
C10_ScoreRange ==
  \A h \in ReturnedHistories :
    h.flakinessScore # Undefined =>
      /\ h.totalRuns >= 1
      /\ h.flakinessScore.num >= 0
      /\ h.flakinessScore.den > 0
      /\ h.flakinessScore.num <= 100 * h.flakinessScore.den

C10_Witness ==
  /\ ret.op = "getFlakyTests"
  /\ \E h \in ReturnedHistories :
       /\ h.flakinessScore # Undefined
       /\ h.flakinessScore.num > 0

DurationsOf(t) ==
  {ObservedFor(t)[i].durationMs : i \in DOMAIN ObservedFor(t)}

\* C11: after results with durations d1..dn (n >= 1) have been applied for a
\* test identifier, maxDurationMs = max(d1..dn), and minDurationMs =
\* min(d1..dn) provided no di is 0; a stored minimum of 0 is replaced by the
\* next duration.
C11_MinMaxDuration ==
  \A t \in TestIds :
    \A r \in SELECT_HISTORY_BY_TEST_ID(test_history, t) :
      /\ r.max_duration_ms \in DurationsOf(t)
      /\ \A d \in DurationsOf(t) : d <= r.max_duration_ms
      /\ 0 \notin DurationsOf(t) =>
           /\ r.min_duration_ms \in DurationsOf(t)
           /\ \A d \in DurationsOf(t) : r.min_duration_ms <= d
      /\ (Len(ObservedFor(t)) = 2 /\ ObservedFor(t)[1].durationMs = 0) =>
           r.min_duration_ms = ObservedFor(t)[2].durationMs

C11_Witness ==
  \E t \in TestIds :
    /\ Len(ObservedFor(t)) = 2
    /\ ObservedFor(t)[1].durationMs = 2
    /\ ObservedFor(t)[2].durationMs = 1
    /\ \E r \in SELECT_HISTORY_BY_TEST_ID(test_history, t) :
         r.min_duration_ms = 1 /\ r.max_duration_ms = 2

\* History rows with at least two runs, one pass and one failure
HasPassAndFail ==
  {r \in test_history :
     r.total_runs >= 2 /\ r.pass_count > 0 /\ r.fail_count > 0}

ScoreOf(r) == Frac(r.fail_count * 100, r.total_runs)

HistoryRowOf(hist, t) == SELECT_HISTORY_BY_TEST_ID(hist, t)

\* C25: updateTestHistory sets lastStatus and lastRunAt from the applied
\* result and the time of the call whatever the status; lastFailedAt becomes
\* that time when the status is failed and otherwise keeps the value it had
\* before the call (NULL when the row did not exist).
C25_LastFailedAtFrame ==
  [][Len(observed') = Len(observed) + 1 =>
       LET res == observed'[Len(observed')]
           before == HistoryRowOf(test_history, res.testId)
       IN /\ HistoryRowOf(test_history', res.testId) # {}
          /\ \A r \in HistoryRowOf(test_history', res.testId) :
               /\ r.last_status = res.status
               /\ r.last_run_at = clock
               /\ res.status = "failed" => r.last_failed_at = clock
               /\ res.status # "failed" =>
                    /\ \A q \in before : r.last_failed_at = q.last_failed_at
                    /\ before = {} => r.last_failed_at = NULL]_vars

C25_Witness ==
  \E t \in TestIds :
    /\ Len(ObservedFor(t)) = 2
    /\ ObservedFor(t)[1].status = "failed"
    /\ ObservedFor(t)[2].status = "timedOut"
    /\ \E r \in HistoryRowOf(test_history, t) :
         /\ r.last_status = "timedOut"
         /\ r.last_failed_at # NULL
         /\ r.last_failed_at < r.last_run_at

RECURSIVE SumDurations(_)
SumDurations(s) ==
  IF s = <<>> THEN 0 ELSE Head(s).durationMs + SumDurations(Tail(s))

EntityOf(c) ==
  CASE c = "&" -> <<"&", "a", "m", "p", ";">>
    [] c = "<" -> <<"&", "l", "t", ";">>
    [] c = ">" -> <<"&", "g", "t", ";">>
    [] c = "\"" -> <<"&", "q", "u", "o", "t", ";">>
    [] c = "'" -> <<"&", "#", "0", "3", "9", ";">>
    [] OTHER -> <<c>>

RECURSIVE Escaped(_)
\* the escaped form of a text: each special character as its entity
Escaped(text) ==
  IF text = <<>> THEN <<>>
  ELSE EntityOf(Head(text)) \o Escaped(Tail(text))

\* C13: in the output of build, every test name and every error message of
\* the failures, flaky-tests and slowest-tests rows appears in escaped form.
C13_NamesAndErrorsEscaped ==
  ret.op = "build" =>
    LET d == ret.value.data
        h == ret.value.html
    IN /\ \A i \in DOMAIN h.failures.rows :
            /\ h.failures.rows[i].testName
                 = Escaped(d.latestFailures[i].testName)
            /\ HasErrorMessage(d.latestFailures[i]) =>
                 /\ h.failures.rows[i].title
                      = Escaped(d.latestFailures[i].errorMessage)
                 /\ h.failures.rows[i].error
                      = Escaped(FirstLine(d.latestFailures[i].errorMessage))
       /\ \A i \in DOMAIN h.flaky.rows :
            h.flaky.rows[i].testName = Escaped(d.flakyTests[i].testName)
       /\ \A i \in DOMAIN h.slowest.rows :
            h.slowest.rows[i].testName = Escaped(d.slowestTests[i].testName)

\* C14: build renders the "No test runs yet" marker exactly when the runs
\* list is empty, and renders the Latest Failures, Flaky Tests and Slowest
\* Tests sections exactly when the corresponding list is non-empty; an empty
\* list omits the whole section, never an empty table.
C14_EmptyStateAndSections ==
  ret.op = "build" =>
    LET d == ret.value.data
        h == ret.value.html
        RendersIff(section, heading, list) ==
          /\ (section.heading = heading) <=> (Len(list) > 0)
          /\ Len(list) = 0 => section = NoSection
          /\ section.table => Len(section.rows) > 0
    IN /\ (h.runs.emptyState = NoRunsMarker) <=> (Len(d.runs) = 0)
       /\ h.runs.table <=> (Len(d.runs) > 0)
       /\ RendersIff(h.failures, "Latest Failures", d.latestFailures)
       /\ RendersIff(h.flaky, "Flaky Tests", d.flakyTests)
       /\ RendersIff(h.slowest, "Slowest Tests", d.slowestTests)

C14_Witness ==
  /\ ret.op = "build"
  /\ Len(ret.value.data.runs) = 0
  /\ ret.value.html.runs.emptyState = NoRunsMarker
  /\ Len(ret.value.data.latestFailures) = 0
  /\ ret.value.html.failures = NoSection
  /\ Len(ret.value.data.flakyTests) > 0
  /\ ret.value.html.flaky.table
  /\ Len(ret.value.data.slowestTests) = 0

\* ------------------------------------------------------------------------
\* Properties of concurrent onTestEnd calls (checked under SpecConc)
\* ------------------------------------------------------------------------
\* C1: when K onTestEnd calls for one test identifier have been processed
\* with their history reads and writes interleaved, the history row of that
\* identifier has totalRuns = K.
C1_NoLostUpdate ==
  (\A c \in CallIds : calls[c].pc = "done") =>
    \A t \in TestIds :
      LET k == Cardinality({c \in CallIds : calls[c].result.testId = t})
      IN k > 0 =>
           /\ SELECT_HISTORY_BY_TEST_ID(test_history, t) # {}
           /\ \A r \in SELECT_HISTORY_BY_TEST_ID(test_history, t) :
                r.total_runs = k

\* ------------------------------------------------------------------------
\* Properties of the reporter (checked under Spec)
\* ------------------------------------------------------------------------
RunRows == {r \in test_runs : r.run_id = runId}

UpdateRunThrew ==
  ret.op = "onEnd" /\ ret.threw /\ ret.value = [at |-> "updateTestRun"]

\* C3: after onBegin, the onTestEnd calls and onEnd with updateTestRun not
\* failing, the stored run has totalTests = number of onTestEnd calls,
\* passed / failed / skipped = number of calls with that status, and flaky =
\* number of calls with status passed and retryCount > 0.
C3_FinalRunCounts ==
  (phase = "ended" /\ db /\ ~UpdateRunThrew) =>
    \A r \in RunRows :
      /\ r.finished_at # NULL
      /\ r.total_tests = Len(testEnds)
      /\ r.passed = CountIf(testEnds, LAMBDA e : e.status = "passed")
      /\ r.failed = CountIf(testEnds, LAMBDA e : e.status = "failed")
      /\ r.skipped = CountIf(testEnds, LAMBDA e : e.status = "skipped")
      /\ r.flaky = CountIf(testEnds, IsFlakyResult)

C3_Witness ==
  /\ phase = "ended"
  /\ ~UpdateRunThrew
  /\ Len(testEnds) = 2
  /\ \E i \in DOMAIN testEnds :
       testEnds[i].status = "failed" /\ testEnds[i].retryCount > 0
  /\ \E r \in RunRows :
       r.total_tests = 2 /\ r.passed = 1 /\ r.failed = 1 /\ r.flaky = 1

\* C4: every finalized run has passRate = passed / totalTests * 100 when
\* totalTests > 0 and passRate = 0 when totalTests = 0.
C4_PassRate ==
  \A r \in test_runs :
    r.finished_at # NULL =>
      /\ r.pass_rate.den > 0
      /\ r.total_tests > 0 =>
           r.pass_rate.num * r.total_tests = r.passed * 100 * r.pass_rate.den
      /\ r.total_tests = 0 => r.pass_rate.num = 0

C4_Witness ==
  \E r \in test_runs :
    /\ r.finished_at # NULL
    /\ r.total_tests = 2
    /\ r.passed = 1
    /\ r.pass_rate = Frac(50, 1)

\* C5: every stored run row, created or finalized, has passed + failed +
\* skipped <= totalTests and flaky <= passed.
C5_RunCounters ==
  \A r \in test_runs :
    /\ r.passed + r.failed + r.skipped <= r.total_tests
    /\ r.flaky <= r.passed

C5_Witness ==
  \E r \in test_runs :
    /\ r.finished_at # NULL
    /\ r.skipped = 1
    /\ r.passed = 1
    /\ r.flaky = 1
    /\ r.total_tests = 2

\* C6: a store exception inside onTestEnd never leaves the hook: the hook
\* returns normally, later calls are still processed (every call is
\* collected and the run stays in progress), and the error is logged at most
\* once per run however many writes fail.
C6_TestEndSwallowsErrors ==
  /\ ret.op = "onTestEnd" => (~ret.threw /\ phase = "begun")
  /\ results = testEnds
  /\ errorLogs <= 1
  /\ writeFaults > 0 => errorLogs = 1

C6_Witness ==
  /\ ret.op = "onTestEnd"
  /\ writeFaults >= 2
  /\ errorLogs = 1
  /\ Len(results) = 2

\* C7: a store failure during onBegin (insertTestRun) or onEnd
\* (updateTestRun, checkpoint, close) never propagates out of the hook.
C7_RunHooksNeverThrow ==
  ret.op \in {"onBegin", "onEnd"} => ~ret.threw

\* C23: in every state reachable through the reporter hooks, store write
\* failures included, the run identifier of every stored test result is the
\* identifier of exactly one stored test run.
C23_ResultsReferenceOneRun ==
  \A r \in test_results :
    Cardinality({q \in test_runs : q.run_id = r.run_id}) = 1

ResultRowsOf(t) == {r \in test_results : r.test_id = t}

HistoryRunsOf(t) ==
  IF HistoryRowOf(test_history, t) = {} THEN 0
  ELSE (CHOOSE r \in HistoryRowOf(test_history, t) : TRUE).total_runs

\* C28: for each test identifier the history row's totalRuns (0 when there
\* is no row) is at most the number of stored result rows with that
\* identifier, and equals it when no store write of onTestEnd has failed.
C28_HistoryRunsAtMostResults ==
  \A t \in HookTestIds :
    /\ HistoryRunsOf(t) <= Cardinality(ResultRowsOf(t))
    /\ writeFaults = 0 => HistoryRunsOf(t) = Cardinality(ResultRowsOf(t))

C28_Witness ==
  \E t \in HookTestIds :
    /\ Len(testEnds) = 2
    /\ writeFaults = 1
    /\ Cardinality(ResultRowsOf(t)) = 2
    /\ HistoryRunsOf(t) = 1

\* ------------------------------------------------------------------------
\* Properties of the store API and the generated charts (checked under
\* SpecStore)
\* ------------------------------------------------------------------------
\* the runs that started after r
NewerRuns(r) == {q \in test_runs : q.started_at > r.started_at}

\* C15: the two trend charts of a generated dashboard show the pass rate and
\* the duration of at most 10 runs, the 10 most recent runs in the store,
\* ordered oldest to newest ('Run 1' is the oldest of them).
C15_TrendOldestToNewest ==
  ret.op = "generate" =>
    LET chart == ret.value.result.chartData
        n == IF Cardinality(test_runs) < ChartRuns
             THEN Cardinality(test_runs) ELSE ChartRuns
    IN /\ Len(chart.labels) = n
       /\ Len(chart.passRateTrend) = n
       /\ Len(chart.durationTrend) = n
       /\ \A i \in 1..n : chart.labels[i] = i
       /\ \A r \in test_runs :
            Cardinality(NewerRuns(r)) < n =>
              LET i == n - Cardinality(NewerRuns(r))
              IN /\ chart.passRateTrend[i] = toFixed1(r.pass_rate)
                 /\ chart.durationTrend[i]
                      = toFixed1(Frac(r.duration_ms, 1000))

\* C16: insertTestRun with a run identifier that already exists fails with
\* an error propagated to the caller and leaves the existing run row and the
\* set of runs unchanged.
C16_DuplicateRunRejected ==
  [][(/\ ret'.op = "insertTestRun"
      /\ clock' = clock + 1
      /\ \E r \in test_runs : r.run_id = ret'.value.args.runId)
     => (ret'.threw /\ UNCHANGED storeVars)]_vars

C16_Witness ==
  /\ ret.op = "insertTestRun"
  /\ ret.threw
  /\ \E r \in test_runs :
       /\ r.run_id = ret.value.args.runId
       /\ r.passed = 1
       /\ r.total_tests # ret.value.args.totalTests

\* the value updateTestRun is to store for field f
Supplied(updates, f, absent) ==
  IF f \in DOMAIN updates THEN updates[f] ELSE absent

\* C17: updateTestRun(runId, updates) sets finishedAt, totalTests, passed,
\* failed, skipped, flaky, passRate and durationMs of that run to the
\* supplied value, or to null/0 for each field not supplied, and leaves the
\* run's identifier, start time, branch, commit, environment, trigger, tags
\* and browser, and every other run row, unchanged.
C17_UpdateRunFrame ==
  [][(ret'.op = "updateTestRun" /\ clock' = clock + 1) =>
       LET rid == ret'.value.args.runId
           u == ret'.value.args.updates
       IN /\ Cardinality(test_runs') = Cardinality(test_runs)
          /\ \A r \in test_runs : r.run_id # rid => r \in test_runs'
          /\ \A r \in test_runs : r.run_id = rid =>
               \E q \in test_runs' :
                 /\ q.run_id = rid
                 /\ q.started_at = r.started_at
                 /\ q.branch = r.branch
                 /\ q.commit_sha = r.commit_sha
                 /\ q.environment = r.environment
                 /\ q.trigger = r.trigger
                 /\ q.tags = r.tags
                 /\ q.browser = r.browser
                 /\ q.created_at = r.created_at
                 /\ q.finished_at = Supplied(u, "finishedAt", NULL)
                 /\ q.total_tests = Supplied(u, "totalTests", 0)
                 /\ q.passed = Supplied(u, "passed", 0)
                 /\ q.failed = Supplied(u, "failed", 0)
                 /\ q.skipped = Supplied(u, "skipped", 0)
                 /\ q.flaky = Supplied(u, "flaky", 0)
                 /\ q.pass_rate = Supplied(u, "passRate", Frac(0, 1))
                 /\ q.duration_ms = Supplied(u, "durationMs", 0)
          /\ UNCHANGED <<test_results, test_history, schema>>]_vars

C17_Witness ==
  /\ ret.op = "updateTestRun"
  /\ DOMAIN ret.value.args.updates = {"passed"}
  /\ \E r \in test_runs :
       /\ r.run_id = ret.value.args.runId
       /\ r.passed = 1
       /\ r.total_tests = 0
       /\ r.duration_ms = 0
       /\ r.branch = "main"
  /\ \E r \in test_runs :
       /\ r.run_id # ret.value.args.runId
       /\ r.total_tests = 1

\* the identifier is carried by no row of the store
UnknownRun(rid) ==
  /\ \A r \in test_runs : r.run_id # rid
  /\ \A r \in test_results : r.run_id # rid

UnknownTest(tid) == \A r \in test_history : r.test_id # tid

\* C18: a read for a run or test identifier that is not in the store
\* (getTestRun, getTestHistory) returns undefined, never throws and never
\* changes the store; list reads for an unknown run (getTestResults,
\* getFailedTests) return an empty list.
C18_NotFoundReads ==
  [][(ret'.op \in {"getTestRun", "getTestHistory", "getTestResults",
                   "getFailedTests"}
      /\ ret' # ret) =>
       /\ ~ret'.threw
       /\ UNCHANGED storeVars
       /\ (ret'.op = "getTestRun" /\ UnknownRun(ret'.value.args.runId))
            => ret'.value.result = Undefined
       /\ (ret'.op = "getTestHistory"
           /\ UnknownTest(ret'.value.args.testId))
            => ret'.value.result = Undefined
       /\ (ret'.op \in {"getTestResults", "getFailedTests"}
           /\ UnknownRun(ret'.value.args.runId))
            => ret'.value.result = <<>>]_vars

C18_Witness ==
  /\ ret.op = "getTestRun"
  /\ UnknownRun(ret.value.args.runId)
  /\ ret.value.result = Undefined
  /\ ~ret.threw
  /\ test_runs # {}
  /\ test_results # {}

\* C19: running schema initialisation N >= 1 times on the same store, also
\* one that holds runs, results and history, leaves the same queryable state
\* as running it once: no existing row is removed or changed.
C19_SchemaInitIdempotent ==
  [][(~instance /\ instance') =>
       /\ schema' = TableNames
       /\ test_runs' = test_runs
       /\ test_results' = test_results
       /\ test_history' = test_history
       /\ initSchema(initSchema(Store)) = initSchema(Store)
       /\ initSchema(Store') = Store']_vars

C19_Witness ==
  /\ ret.op = "getInstance"
  /\ ~ret.value.args.wasOpen
  /\ instance
  /\ schema = TableNames
  /\ test_runs # {}
  /\ test_results # {}
  /\ test_history # {}

\* C20: a write given a run or a result whose run identifier is empty is
\* rejected before any statement reaches storage, and the store is left
\* unchanged.
C20_MalformedWriteRejected ==
  /\ (ret.op \in {"insertTestRun", "insertTestResult"}
      /\ ret.value.args.runId = EmptyRunId) => ret.threw
  /\ \A r \in test_runs : r.run_id # EmptyRunId
  /\ \A r \in test_results : r.run_id # EmptyRunId

\* C21: a generator constructed with recentRunsLimit in its config fetches
\* at most that many recent runs when generate() runs.
C21_ConfiguredLimits ==
  ret.op = "generate" =>
    LET config == ret.value.args.config
    IN "recentRunsLimit" \in DOMAIN config =>
         Len(ret.value.result.runs) <= config.recentRunsLimit

FailedRowsOf(rid) ==
  {mapToTestResult(r) :
     r \in {q \in test_results : q.run_id = rid /\ q.status = "failed"}}

\* C27: the latestFailures of the fetched data are exactly the stored
\* results with status failed of the first run of the recent-runs list, a
\* run than which none is more recent; there are none when the store holds
\* no run.
C27_LatestFailures ==
  ret.op = "generate" =>
    LET d == ret.value.result
        listed == {d.latestFailures[i] : i \in DOMAIN d.latestFailures}
    IN /\ test_runs = {} => d.latestFailures = <<>>
       /\ Len(d.runs) = 0 => test_runs = {}
       /\ Len(d.runs) > 0 =>
            /\ \A r \in test_runs : r.created_at <= d.runs[1].createdAt
            /\ listed = FailedRowsOf(d.runs[1].runId)
            /\ Len(d.latestFailures)
                 = Cardinality(FailedRowsOf(d.runs[1].runId))

C27_Witness ==
  /\ ret.op = "generate"
  /\ Len(ret.value.result.runs) > 0
  /\ Len(ret.value.result.latestFailures) = 1
  /\ \E r \in test_results :
       /\ r.run_id = ret.value.result.runs[1].runId
       /\ r.status = "passed"

\* ------------------------------------------------------------------------
\* Properties of the reporter's whole life and of the singleton (checked
\* under SpecLife)
\* ------------------------------------------------------------------------
\* C22: the run row of the reporter moves only absent -> created (counters
\* zero, no finish timestamp) by onBegin -> finalized (finish timestamp) by
\* onEnd; it is never deleted, and once finalized no later step changes it.
C22_RunRowLifeCycle ==
  [][LET before == {r \in test_runs : r.run_id = runId}
         after == {r \in test_runs' : r.run_id = runId}
     IN /\ before # {} => after # {}
        /\ (before = {} /\ after # {}) =>
             /\ ret'.op = "onBegin"
             /\ \A r \in after :
                  /\ r.finished_at = NULL
                  /\ r.passed = 0 /\ r.failed = 0
                  /\ r.skipped = 0 /\ r.flaky = 0
        /\ \A r \in before :
             IF r.finished_at # NULL THEN after = before
             ELSE \/ after = before
                  \/ /\ ret'.op = "onEnd"
                     /\ \A q \in after : q.finished_at # NULL]_vars

\* C24: onEnd with a handle writes the final update, then checkpoints, then
\* closes the handle and clears the singleton: when it returns no handle is
\* open; when the update throws nothing was checkpointed or closed before
\* it; when the checkpoint or the close throws the update is already
\* written.  A getInstance that finds no instance opens the file anew.
C24_EndCallOrder ==
  [][/\ (ret'.op = "onEnd" /\ db) =>
          LET rows == {r \in test_runs' : r.run_id = runId}
          IN /\ ~ret'.threw =>
                  /\ ret'.value.storeCalls
                       = <<"updateTestRun", "checkpoint", "close">>
                  /\ ~instance' /\ instancePath' = NoPath /\ ~dbOpen'
                  /\ \A r \in rows : r.finished_at = clock
             /\ (ret'.threw /\ ret'.value.at = "updateTestRun") =>
                  UNCHANGED <<test_runs, handleVars, dbOpen>>
             /\ (ret'.threw /\ ret'.value.at \in {"checkpoint", "close"}) =>
                  /\ UNCHANGED <<handleVars, dbOpen>>
                  /\ \A r \in rows : r.finished_at = clock
     /\ (ret'.op = "getInstance" /\ ~instance) =>
          /\ ret'.value.fresh
          /\ instance'
          /\ instancePath' = ret'.value.requested]_vars

C24_Witness ==
  /\ ret.op = "onEnd"
  /\ ~ret.threw
  /\ db
  /\ ret.value.storeCalls = <<"updateTestRun", "checkpoint", "close">>
  /\ ~instance
  /\ ~dbOpen
  /\ \E r \in RunRows : r.finished_at # NULL /\ r.total_tests = 1

\* C29: getInstance(path) returns the open instance, whatever path is
\* asked for, and opens the requested path only when there is no instance;
\* an open connection is that of the single instance.
C29_SingletonIgnoresPath ==
  [][/\ ret'.op = "getInstance" =>
          IF instance
          THEN /\ UNCHANGED handleVars
               /\ ret'.value.path = instancePath
               /\ ~ret'.value.fresh
          ELSE /\ instance'
               /\ instancePath' = ret'.value.requested
               /\ ret'.value.path = ret'.value.requested
               /\ ret'.value.fresh
     /\ instance' = (instancePath' # NoPath)
     /\ dbOpen' => instance']_vars

C29_Witness ==
  /\ ret.op = "getInstance"
  /\ ret.value.requested = CustomPath
  /\ ret.value.path = DefaultPath
  /\ instance
  /\ instancePath = DefaultPath
  /\ dbOpen
  /\ phase = "begun"

HookOps == {"onBegin", "onTestEnd", "onEnd"}

\* C30: when getInstance throws in the constructor the reporter keeps no
\* handle; every later hook then returns without throwing and without a
\* store call, onTestEnd still collects its result, and onEnd still computes
\* the counts and the pass rate from the collected results.
C30_ReporterWithoutStore ==
  [][/\ (ret'.op = "constructor" /\ ret'.value.openThrew) =>
          (~db' /\ initError')
     /\ (~db /\ ret'.op \in HookOps) =>
          /\ ~ret'.threw
          /\ UNCHANGED <<storeVars, handleVars>>
          /\ ret'.op = "onTestEnd" =>
               /\ Len(testEnds') = Len(testEnds) + 1
               /\ results' = Append(results, testEnds'[Len(testEnds')])
          /\ ret'.op = "onEnd" =>
               /\ ret'.value.storeCalls = <<>>
               /\ ret'.value.summary.total = Len(testEnds)
               /\ ret'.value.summary.passed
                    = CountIf(testEnds, LAMBDA e : e.status = "passed")
               /\ ret'.value.summary.failed
                    = CountIf(testEnds, LAMBDA e : e.status = "failed")
               /\ ret'.value.summary.skipped
                    = CountIf(testEnds, LAMBDA e : e.status = "skipped")
               /\ ret'.value.summary.flaky = CountIf(testEnds, IsFlakyResult)
               /\ ret'.value.summary.passRate
                    = IF Len(testEnds) = 0 THEN Frac(0, 1)
                      ELSE Frac(100 * ret'.value.summary.passed,
                                Len(testEnds))]_vars

C30_Witness ==
  /\ phase = "ended"
  /\ ~db
  /\ initError
  /\ schema = {}
  /\ test_results = {}
  /\ Len(results) = 2
  /\ ret.op = "onEnd"
  /\ ~ret.threw
  /\ ret.value.storeCalls = <<>>
  /\ ret.value.summary.passed = 1
  /\ ret.value.summary.passRate = Frac(50, 1)

====
